---- MODULE Spec2Model ----
(***************************************************************************)
(* stock-profit: a Lambda handler that reads a list of stock positions,    *)
(* fetches one quote per position concurrently, stores a JSON snapshot     *)
(* and mails a profit/loss report.                                         *)
(*                                                                         *)
(* Bytes are one-character strings, byte slices are sequences of them.     *)
(* A float64 is the record [inf, num]: num counts hundredths, inf marks    *)
(* +Inf (the only non-finite value the inputs of the model can produce).   *)
(***************************************************************************)
EXTENDS Integers, Sequences, FiniteSets, TLC

\* ------------------------------------------------------------------ bounds
\* longest byte blob handed to GetTickerSymbles in SpecParse
MaxBufLen == 7
\* most lines of the stock data file / entries of the static table in Spec
MaxLines == 2

\* ------------------------------------------------------------- byte helpers
LF == "\n"
CR == "\r"
Comma == ","

Digits == <<"0", "1", "2", "3", "4", "5", "6", "7", "8", "9">>

IsDigit(c) == \E d \in 1..10 : Digits[d] = c

DigitVal(c) == (CHOOSE d \in 1..10 : Digits[d] = c) - 1

\* float64 values
F(n) == [inf |-> FALSE, num |-> n]
PosInf == [inf |-> TRUE, num |-> 0]

\* the zero value of the Ticker struct
ZeroTicker == [Symble |-> <<>>, Bid |-> F(0), Value |-> F(0), Hold |-> 0]

\* bytes.IndexByte: 0 when c does not occur, else the 1-based position
IndexByte(s, c) ==
    IF \E i \in 1..Len(s) : s[i] = c
    THEN CHOOSE i \in 1..Len(s) : s[i] = c /\ \A j \in 1..(i - 1) : s[j] # c
    ELSE 0

\* bufio.dropCR
dropCR(s) ==
    IF Len(s) > 0 /\ s[Len(s)] = CR THEN SubSeq(s, 1, Len(s) - 1) ELSE s

\* bufio.ScanLines(data, false): without a newline in data it asks for more
\* data (advance 0) instead of returning the rest as a line
ScanLines(data) ==
    LET i == IndexByte(data, LF)
    IN  IF i > 0
        THEN [advance |-> i, token |-> dropCR(SubSeq(data, 1, i - 1))]
        ELSE [advance |-> 0, token |-> <<>>]

\* strings.Split(s, ",")
RECURSIVE Split(_)
Split(s) ==
    LET i == IndexByte(s, Comma)
    IN  IF i = 0
        THEN <<s>>
        ELSE <<SubSeq(s, 1, i - 1)>> \o Split(SubSeq(s, i + 1, Len(s)))

AllDigits(s) == Len(s) > 0 /\ \A i \in 1..Len(s) : IsDigit(s[i])

RECURSIVE DecVal(_)
DecVal(s) ==
    IF Len(s) = 0 THEN 0
    ELSE DecVal(SubSeq(s, 1, Len(s) - 1)) * 10 + DigitVal(s[Len(s)])

\* strconv.ParseFloat(s, 64) with the error dropped: a decimal integer
\* literal gives its value, "inf" gives +Inf, a malformed literal gives 0.
\* Signs, fractions, exponents and literals out of range do not occur in
\* the inputs of the model.
ParseFloat(s) ==
    IF AllDigits(s) THEN F(DecVal(s) * 100)
    ELSE IF s = <<"i", "n", "f">> THEN PosInf
    ELSE F(0)

\* strconv.Atoi(s) with the error dropped
Atoi(s) == IF AllDigits(s) THEN DecVal(s) ELSE 0

\* the Ticker built from the fields of one line
LineTicker(stocks) ==
    [Symble |-> stocks[1], Bid |-> ParseFloat(stocks[2]),
     Value |-> ParseFloat(stocks[3]), Hold |-> Atoi(stocks[4])]

RECURSIVE GetTickerSymbles(_)
GetTickerSymbles(buf) ==
    LET sc == ScanLines(buf)
        stocks == Split(sc.token)
    IN  IF sc.advance = 0
        THEN <<>>
        ELSE (IF Len(stocks) = 4 THEN <<LineTicker(stocks)>> ELSE <<>>)
             \o GetTickerSymbles(SubSeq(buf, sc.advance + 1, Len(buf)))

\* ------------------------------------------------------------------ inputs
\* values of the stock-api-key header and of STOCK_API_KEY
Keys == {"", "secret"}

\* dates time.Now() may give
Dates == {"2021-03-01", "2021-03-02"}

\* prices the quote page may show
Prices == {F(1500), F(250)}

\* lines the stock data file is made of
SampleLines ==
    { <<"A", ",", "1", "0", ",", "0", ",", "5", LF>>,
      <<"B", ",", "7", ",", "3", ",", "2", CR, LF>>,
      <<"C", ",", "x", ",", "1", LF>>,
      <<"D", ",", "i", "n", "f", ",", "0", ",", "1", LF>> }

RECURSIVE BlobsOf(_)
BlobsOf(n) ==
    IF n = 0 THEN {<<>>}
    ELSE BlobsOf(n - 1)
         \cup {b \o l : b \in BlobsOf(n - 1), l \in SampleLines}

Blobs == BlobsOf(MaxLines)

\* the hard-coded table of the variant without a stock data file
StaticTable ==
    << [Symble |-> <<"A", "M", "D">>, Bid |-> F(8481), Value |-> F(0), Hold |-> 20],
       [Symble |-> <<"A", "M", "Z", "N">>, Bid |-> F(314347), Value |-> F(0), Hold |-> 3],
       [Symble |-> <<"C", "O", "S", "T">>, Bid |-> F(32117), Value |-> F(0), Hold |-> 5],
       [Symble |-> <<"C", "R", "M">>, Bid |-> F(22367), Value |-> F(0), Hold |-> 5],
       [Symble |-> <<"G", "O", "O", "G", "L">>, Bid |-> F(205839), Value |-> F(0), Hold |-> 2],
       [Symble |-> <<"L", "M", "T">>, Bid |-> F(33327), Value |-> F(0), Hold |-> 10],
       [Symble |-> <<"N", "V", "D", "A">>, Bid |-> F(55682), Value |-> F(0), Hold |-> 5],
       [Symble |-> <<"O", "P", "E", "N">>, Bid |-> F(2251), Value |-> F(0), Hold |-> 10],
       [Symble |-> <<"P", "Y", "P", "L">>, Bid |-> F(26508), Value |-> F(0), Hold |-> 5],
       [Symble |-> <<"S", "P", "C", "E">>, Bid |-> F(3271), Value |-> F(0), Hold |-> 10],
       [Symble |-> <<"V">>, Bid |-> F(21696), Value |-> F(0), Hold |-> 5],
       [Symble |-> <<"Z", "G">>, Bid |-> F(16971), Value |-> F(0), Hold |-> 10] >>

\* the table, cut to the bound on the number of positions
StaticSymbles ==
    SubSeq(StaticTable, 1, IF MaxLines < Len(StaticTable) THEN MaxLines ELSE Len(StaticTable))

\* what the quote page request may give: a transport error, or a response
\* with a status and a body that is unreadable, lacks the pattern, holds a
\* capture that is no float literal, or holds a price
NetErr == [kind |-> "neterr"]

Bodies ==
    {[kind |-> "unreadable"], [kind |-> "nomatch"], [kind |-> "badfloat"]}
    \cup {[kind |-> "price", price |-> p] : p \in Prices}

NoResp == [kind |-> "none"]

Page(st, bd) == [kind |-> "page", status |-> st, body |-> bd]

\* a 404 page is tried without the pattern and with a price in it
Responses ==
    {NetErr} \cup {Page(200, bd) : bd \in Bodies}
    \cup {Page(404, [kind |-> "nomatch"]), Page(404, [kind |-> "price", price |-> F(1500)])}

\* ------------------------------------------------------------------- state
VARIABLES
    variant,        \* "s3list": positions from the stock data file; "static": from the table
    header,         \* request.Headers["stock-api-key"]
    apiKey,         \* os.Getenv("STOCK_API_KEY")
    pc,             \* where Handler stands
    data,           \* bytes DownloadFile returned
    symbols,        \* the positions Handler ranges over
    workers,        \* the GetStockPrice goroutines started so far, in start order
    activeThreads,  \* Handler's counter of results still to receive
    tickers,        \* the batch, in order of receipt
    b,              \* json.Marshal(result)
    uploaded,       \* what UploadFile wrote to the bucket, <<>> while nothing
    mail,           \* the SenderMail calls made, each with its report and outcome
    res,            \* the APIGatewayProxyResponse returned
    err,            \* the error returned with it
    calls,          \* the collaborators invoked so far, in order, each with its outcome
    buf,            \* SpecParse: the blob under test
    parsed          \* SpecParse: <<GetTickerSymbles(buf)>> once computed

vars == <<variant, header, apiKey, pc, data, symbols, workers, activeThreads,
          tickers, b, uploaded, mail, res, err, calls, buf, parsed>>

handlerVars == <<variant, header, apiKey, pc, data, symbols, workers,
                 activeThreads, tickers, b, uploaded, mail, res, err, calls>>

NoResponse == [StatusCode |-> 0, Body |-> ""]

Init ==
    /\ variant \in {"s3list", "static"}
    /\ header \in Keys
    /\ apiKey \in Keys
    /\ pc = "check"
    /\ data = <<>>
    /\ symbols = <<>>
    /\ workers = <<>>
    /\ activeThreads = 0
    /\ tickers = <<>>
    /\ b = <<>>
    /\ uploaded = <<>>
    /\ mail = <<>>
    /\ res = NoResponse
    /\ err = "none"
    /\ calls = <<>>
    /\ buf = <<>>
    /\ parsed = <<>>

\* --------------------------------------------------------------- GetStockPrice
\* faulty variant: the value of the position is kept instead of the parsed price
PricedTickerKeepsValue(symbol, f) ==
    [Symble |-> symbol.Symble, Bid |-> symbol.Bid, Value |-> symbol.Value, Hold |-> symbol.Hold]

\* the Ticker a successful fetch sends
PricedTicker(symbol, f) ==
    [Symble |-> symbol.Symble, Bid |-> symbol.Bid, Value |-> f, Hold |-> symbol.Hold]

\* what one GetStockPrice run does with the response it gets: it sends msg
\* on doneTicker, or panics (indexing result[0] of an empty match list)
GetStockPrice(v, symbol, resp) ==
    IF resp.kind = "neterr"
    THEN [panic |-> FALSE, why |-> "neterr", msg |-> ZeroTicker]
    ELSE IF v = "s3list" /\ resp.status # 200
    THEN [panic |-> FALSE, why |-> "status", msg |-> ZeroTicker]
    ELSE IF resp.body.kind = "unreadable"
    THEN [panic |-> FALSE, why |-> "markup", msg |-> ZeroTicker]
    ELSE IF resp.body.kind = "nomatch"
    THEN [panic |-> TRUE, why |-> "nomatch", msg |-> ZeroTicker]
    ELSE IF resp.body.kind = "badfloat"
    THEN [panic |-> FALSE, why |-> "badfloat", msg |-> ZeroTicker]
    ELSE [panic |-> FALSE, why |-> "ok", msg |-> PricedTicker(symbol, resp.body.price)]

\* ------------------------------------------------------------------ SenderMail
\* faulty variant: the earn of one share
EarnPerShare(r) == r.Value.num - r.Bid.num

Earn(r) == (r.Value.num - r.Bid.num) * r.Hold

\* one formatted line per entry: symbol, bid, value, hold, earn
ReportLine(r) == <<r.Symble, r.Bid.num, r.Value.num, r.Hold, Earn(r)>>

RECURSIVE SumEarn(_)
SumEarn(body) ==
    IF Len(body) = 0 THEN 0
    ELSE SumEarn(SubSeq(body, 1, Len(body) - 1)) + Earn(body[Len(body)])

\* the mail text: the lines, the rule, the total
Content(body) ==
    [lines |-> [i \in 1..Len(body) |-> ReportLine(body[i])],
     rule |-> "------------------------------",
     total |-> <<"Profit Loss:", SumEarn(body)>>]

\* ----------------------------------------------------------------- json.Marshal
Finite(body) == \A i \in 1..Len(body) : ~body[i].Bid.inf /\ ~body[i].Value.inf

JsonTicker(t) == [symble |-> t.Symble, bid |-> t.Bid, value |-> t.Value, hold |-> t.Hold]

\* a nil slice is encoded as null
Marshal(result) ==
    [created_at |-> result.CreatedAt,
     body |-> IF Len(result.Body) = 0 THEN "null"
              ELSE [i \in 1..Len(result.Body) |-> JsonTicker(result.Body[i])]]

\* --------------------------------------------------------------------- Handler
Call(op, ok) == [op |-> op, ok |-> ok]

\* faulty variant: the collect loop stops one result early
LoopCondOffByOne(n) == n > 1

\* the condition of the collect loop
LoopCond(n) == n > 0

\* faulty variant: the comparison the wrong way round
KeyMatchesInverted(h, k) == h # k

\* the api key comparison
KeyMatches(h, k) == h = k

Respond(code, body, e) ==
    /\ res' = [StatusCode |-> code, Body |-> body]
    /\ err' = e
    /\ pc' = "returned"

\* the api key check; the static variant then takes its table
CheckApiKey ==
    /\ pc = "check"
    /\ IF ~KeyMatches(header, apiKey)
       THEN /\ Respond(400, "status bad request.", "status bad request. 400")
            /\ UNCHANGED symbols
       ELSE /\ pc' = IF variant = "s3list" THEN "download" ELSE "launch"
            /\ symbols' = IF variant = "static" THEN StaticSymbles ELSE symbols
            /\ UNCHANGED <<res, err>>
    /\ UNCHANGED <<variant, header, apiKey, data, workers, activeThreads,
                   tickers, b, uploaded, mail, calls, buf, parsed>>

DownloadResults ==
    {[ok |-> FALSE, bytes |-> <<>>]} \cup {[ok |-> TRUE, bytes |-> d] : d \in Blobs}

\* faulty variant: no return after a failed download
DownloadFileIgnoresError ==
    /\ pc = "download"
    /\ \E r \in DownloadResults :
          /\ calls' = Append(calls, Call("DownloadFile", r.ok))
          /\ data' = r.bytes
          /\ symbols' = GetTickerSymbles(r.bytes)
          /\ pc' = "launch"
          /\ UNCHANGED <<res, err>>
    /\ UNCHANGED <<variant, header, apiKey, workers, activeThreads, tickers,
                   b, uploaded, mail, buf, parsed>>

\* DownloadFile and, on success, the parse of what it returned
DownloadFile ==
    /\ pc = "download"
    /\ \E r \in DownloadResults :
          /\ calls' = Append(calls, Call("DownloadFile", r.ok))
          /\ IF ~r.ok
             THEN /\ Respond(500, "download error", "download error")
                  /\ UNCHANGED <<data, symbols>>
             ELSE /\ data' = r.bytes
                  /\ symbols' = GetTickerSymbles(r.bytes)
                  /\ pc' = "launch"
                  /\ UNCHANGED <<res, err>>
    /\ UNCHANGED <<variant, header, apiKey, workers, activeThreads, tickers,
                   b, uploaded, mail, buf, parsed>>

\* faulty variant: the goroutine is started but not counted
LaunchForgetsCount ==
    /\ pc = "launch"
    /\ Len(workers) < Len(symbols)
    /\ workers' = Append(workers, [pc |-> "running",
                                   symbol |-> symbols[Len(workers) + 1],
                                   resp |-> NoResp, why |-> "", msg |-> ZeroTicker])
    /\ calls' = Append(calls, Call("go GetStockPrice", TRUE))
    /\ UNCHANGED <<variant, header, apiKey, pc, data, symbols, activeThreads,
                   tickers, b, uploaded, mail, res, err, buf, parsed>>

\* one round of the range loop: go GetStockPrice(symbol, doneTicker)
Launch ==
    /\ pc = "launch"
    /\ Len(workers) < Len(symbols)
    /\ workers' = Append(workers, [pc |-> "running",
                                   symbol |-> symbols[Len(workers) + 1],
                                   resp |-> NoResp, why |-> "", msg |-> ZeroTicker])
    /\ activeThreads' = activeThreads + 1
    /\ calls' = Append(calls, Call("go GetStockPrice", TRUE))
    /\ UNCHANGED <<variant, header, apiKey, pc, data, symbols, tickers, b,
                   uploaded, mail, res, err, buf, parsed>>

\* the range loop is over
LaunchDone ==
    /\ pc = "launch"
    /\ Len(workers) = Len(symbols)
    /\ pc' = "collect"
    /\ UNCHANGED <<variant, header, apiKey, data, symbols, workers,
                   activeThreads, tickers, b, uploaded, mail, res, err, calls,
                   buf, parsed>>

\* goroutine w runs up to its send; a panic ends the process
Fetch(w) ==
    /\ pc # "crashed"
    /\ workers[w].pc = "running"
    /\ \E resp \in Responses :
          LET r == GetStockPrice(variant, workers[w].symbol, resp)
          IN  IF r.panic
              THEN /\ workers' = [workers EXCEPT ![w].pc = "panicked", ![w].resp = resp,
                                                 ![w].why = r.why]
                   /\ pc' = "crashed"
              ELSE /\ workers' = [workers EXCEPT ![w].pc = "sending", ![w].resp = resp,
                                                 ![w].why = r.why, ![w].msg = r.msg]
                   /\ pc' = pc
    /\ UNCHANGED <<variant, header, apiKey, data, symbols, activeThreads,
                   tickers, b, uploaded, mail, res, err, calls, buf, parsed>>

\* one round of the collect loop: the send of goroutine w meets the receive
Receive(w) ==
    /\ pc = "collect"
    /\ LoopCond(activeThreads)
    /\ workers[w].pc = "sending"
    /\ tickers' = Append(tickers, workers[w].msg)
    /\ activeThreads' = activeThreads - 1
    /\ workers' = [workers EXCEPT ![w].pc = "done"]
    /\ UNCHANGED <<variant, header, apiKey, pc, data, symbols, b, uploaded,
                   mail, res, err, calls, buf, parsed>>

\* the collect loop is over: build the result and encode it
MarshalResult ==
    /\ pc = "collect"
    /\ ~LoopCond(activeThreads)
    /\ \E d \in Dates :
          LET result == [CreatedAt |-> d, Body |-> tickers]
          IN  IF ~Finite(tickers)
              THEN /\ Respond(500, "json: unsupported value", "json: unsupported value")
                   /\ b' = b
              ELSE /\ b' = Marshal(result)
                   /\ pc' = "upload"
                   /\ UNCHANGED <<res, err>>
    /\ UNCHANGED <<variant, header, apiKey, data, symbols, workers,
                   activeThreads, tickers, uploaded, mail, calls, buf, parsed>>

\* faulty variant: no return after a failed upload
UploadFileFallsThrough ==
    /\ pc = "upload"
    /\ \E ok \in BOOLEAN :
          /\ calls' = Append(calls, Call("UploadFile", ok))
          /\ uploaded' = IF ok THEN Append(uploaded, b) ELSE uploaded
          /\ pc' = "mail"
          /\ UNCHANGED <<res, err>>
    /\ UNCHANGED <<variant, header, apiKey, data, symbols, workers,
                   activeThreads, tickers, b, mail, buf, parsed>>

\* UploadFile: the bytes reach the bucket, or the request ends with 500
UploadFile ==
    /\ pc = "upload"
    /\ \E ok \in BOOLEAN :
          /\ calls' = Append(calls, Call("UploadFile", ok))
          /\ IF ok
             THEN /\ uploaded' = Append(uploaded, b)
                  /\ pc' = "mail"
                  /\ UNCHANGED <<res, err>>
             ELSE /\ Respond(500, "upload error", "upload error")
                  /\ UNCHANGED uploaded
    /\ UNCHANGED <<variant, header, apiKey, data, symbols, workers,
                   activeThreads, tickers, b, mail, buf, parsed>>

\* what a SenderMail call that built no report leaves
NoContent == [lines |-> <<>>, rule |-> "", total |-> <<>>]

\* faulty variant: a failed mail fails the request
SenderMailFailsRequest ==
    /\ pc = "mail"
    /\ \E outcome \in {"session error", "send error", "sent"} :
          /\ calls' = Append(calls, Call("SenderMail", outcome = "sent"))
          /\ mail' = Append(mail,
                            [outcome |-> outcome,
                             content |-> IF outcome = "session error" THEN NoContent
                                         ELSE Content(tickers)])
          /\ IF outcome = "sent"
             THEN Respond(200, b, "nil")
             ELSE Respond(500, outcome, outcome)
    /\ UNCHANGED <<variant, header, apiKey, data, symbols, workers,
                   activeThreads, tickers, b, uploaded, buf, parsed>>

\* SenderMail and the return that follows it whatever it gave: without a
\* session no report is built; with one the report is built and SendEmail
\* either delivers it or fails
SenderMail ==
    /\ pc = "mail"
    /\ \E outcome \in {"session error", "send error", "sent"} :
          /\ calls' = Append(calls, Call("SenderMail", outcome = "sent"))
          /\ mail' = Append(mail,
                            [outcome |-> outcome,
                             content |-> IF outcome = "session error" THEN NoContent
                                         ELSE Content(tickers)])
          /\ Respond(200, b, "nil")
    /\ UNCHANGED <<variant, header, apiKey, data, symbols, workers,
                   activeThreads, tickers, b, uploaded, buf, parsed>>

Next ==
    \/ CheckApiKey
    \/ DownloadFile
    \/ Launch
    \/ LaunchDone
    \/ \E w \in 1..Len(workers) : Fetch(w)
    \/ \E w \in 1..Len(workers) : Receive(w)
    \/ MarshalResult
    \/ UploadFile
    \/ SenderMail

Spec == Init /\ [][Next]_vars

\* ------------------------------------------------- GetTickerSymbles on its own
ParseChars == {"A", "7", Comma, LF, CR}

Bufs == UNION {[1..n -> ParseChars] : n \in 0..MaxBufLen}

InitParse ==
    /\ variant = "s3list"
    /\ header = ""
    /\ apiKey = ""
    /\ pc = "parse"
    /\ data = <<>>
    /\ symbols = <<>>
    /\ workers = <<>>
    /\ activeThreads = 0
    /\ tickers = <<>>
    /\ b = <<>>
    /\ uploaded = <<>>
    /\ mail = <<>>
    /\ res = NoResponse
    /\ err = "none"
    /\ calls = <<>>
    /\ buf \in Bufs
    /\ parsed = <<>>

Parse ==
    /\ pc = "parse"
    /\ parsed = <<>>
    /\ parsed' = <<GetTickerSymbles(buf)>>
    /\ UNCHANGED <<handlerVars, buf>>

NextParse == Parse

SpecParse == InitParse /\ [][NextParse]_vars

\* ---------------------------------------------------------------- properties
Called(op) == \E i \in 1..Len(calls) : calls[i].op = op

\* Handler has left the collect loop
PastCollect ==
    \/ pc \in {"upload", "mail"}
    \/ pc = "returned" /\ err \in {"json: unsupported value", "upload error", "nil"}

AllReported ==
    /\ Len(workers) = Len(symbols)
    /\ Len(tickers) = Len(symbols)
    /\ \A w \in 1..Len(workers) : workers[w].pc = "done"

\* C1: once the collect loop is over the batch has exactly N entries, N the
\* number of positions, every launched goroutine has handed over its result
\* and the batch holds each result as often as it was sent; with N = 0 the
\* loop has nothing to receive and the batch is empty.
C1_BatchHasOneEntryPerPosition ==
    /\ PastCollect =>
          /\ AllReported
          /\ \A w \in 1..Len(workers) :
                Cardinality({i \in 1..Len(tickers) : tickers[i] = workers[w].msg})
                   = Cardinality({v \in 1..Len(workers) : workers[v].msg = workers[w].msg})
    /\ (pc = "collect" /\ Len(symbols) = 0) =>
          (tickers = <<>> /\ activeThreads = 0 /\ ENABLED MarshalResult)

\* two positions, the second goroutine's result received first, one of the
\* two a failure
C1_Witness ==
    /\ PastCollect
    /\ Len(symbols) = 2
    /\ tickers[1] = workers[2].msg
    /\ tickers[2] = workers[1].msg
    /\ tickers[1] # tickers[2]
    /\ ZeroTicker \in {tickers[1], tickers[2]}

\* the fetch of goroutine w failed: transport error, status other than 200
\* where the status is looked at, or a body without a price
FetchFailed(w) ==
    /\ workers[w].resp.kind \in {"neterr", "page"}
    /\ \/ workers[w].resp.kind = "neterr"
       \/ /\ workers[w].resp.kind = "page"
          /\ \/ variant = "s3list" /\ workers[w].resp.status # 200
             \/ workers[w].resp.body.kind # "price"

\* C2: every failed fetch, whatever its kind, ends in the zero Ticker being
\* sent on doneTicker and never ends the request.
C2_EveryFailureSendsZeroTicker ==
    \A w \in 1..Len(workers) :
       FetchFailed(w) =>
          /\ workers[w].pc \in {"sending", "done"}
          /\ workers[w].msg = ZeroTicker
          /\ pc # "crashed"

\* C3: a request whose header differs from the configured key gets 400 and
\* nothing else happens for it: no download, no goroutine, no upload, no mail.
C3_BadKeyDoesNoWork ==
    (header # apiKey) =>
       /\ pc \in {"check", "returned"}
       /\ calls = <<>>
       /\ workers = <<>>
       /\ symbols = <<>>
       /\ uploaded = <<>>
       /\ mail = <<>>
       /\ pc = "returned" => (res.StatusCode = 400 /\ err = "status bad request. 400")

C3_Witness ==
    /\ header # apiKey
    /\ pc = "returned"
    /\ res.StatusCode = 400

UploadFailed == \E i \in 1..Len(calls) : calls[i] = Call("UploadFile", FALSE)

\* C4: when UploadFile fails Handler returns 500 with the error and
\* SenderMail is not invoked.
C4_UploadFailureIsFatal ==
    UploadFailed =>
       /\ pc = "returned"
       /\ res = [StatusCode |-> 500, Body |-> "upload error"]
       /\ err = "upload error"
       /\ ~Called("SenderMail")
       /\ mail = <<>>

C4_Witness ==
    /\ UploadFailed
    /\ pc = "returned"
    /\ Len(tickers) > 0

MailFailed == \E m \in 1..Len(mail) : mail[m].outcome # "sent"

\* C5: when the upload succeeded and SenderMail fails, Handler still
\* returns 200 with a nil error and the very bytes that were uploaded.
C5_MailFailureIsNotFatal ==
    MailFailed =>
       /\ pc = "returned"
       /\ res.StatusCode = 200
       /\ err = "nil"
       /\ uploaded = <<b>>
       /\ res.Body = uploaded[1]

C5_Witness ==
    /\ MailFailed
    /\ pc = "returned"
    /\ res.StatusCode = 200
    /\ Len(tickers) > 0

\* C6: a goroutine whose fetch succeeded with price p sends the symbol, bid
\* and hold of its own position with value p, whatever value the position
\* carried, and every entry of the batch is the zero Ticker or such a result.
C6_SuccessKeepsThePosition ==
    /\ \A w \in 1..Len(workers) :
          (workers[w].pc \in {"sending", "done"} /\ ~FetchFailed(w)) =>
             /\ workers[w].msg.Symble = symbols[w].Symble
             /\ workers[w].msg.Bid = symbols[w].Bid
             /\ workers[w].msg.Hold = symbols[w].Hold
             /\ workers[w].msg.Value = workers[w].resp.body.price
    /\ \A i \in 1..Len(tickers) :
          \/ tickers[i] = ZeroTicker
          \/ \E w \in 1..Len(symbols), p \in Prices :
                tickers[i] = [Symble |-> symbols[w].Symble, Bid |-> symbols[w].Bid,
                              Value |-> p, Hold |-> symbols[w].Hold]

\* the position B,7,3,2 priced at 15.00 is in the batch
C6_Witness ==
    \E i \in 1..Len(tickers) :
       tickers[i] = [Symble |-> <<"B">>, Bid |-> F(700), Value |-> F(1500), Hold |-> 2]

\* the lines of a blob: the pieces between newlines, a carriage return before
\* the newline not counted, the piece after the last newline included
RECURSIVE LinesOf(_)
LinesOf(s) ==
    IF Len(s) = 0 THEN <<>>
    ELSE LET i == IndexByte(s, LF)
         IN  IF i = 0 THEN <<dropCR(s)>>
             ELSE <<dropCR(SubSeq(s, 1, i - 1))>> \o LinesOf(SubSeq(s, i + 1, Len(s)))

RECURSIVE PositionsOf(_)
PositionsOf(lines) ==
    IF Len(lines) = 0 THEN <<>>
    ELSE (IF Len(Split(Head(lines))) = 4 THEN <<LineTicker(Split(Head(lines)))>> ELSE <<>>)
         \o PositionsOf(Tail(lines))

\* C7: GetTickerSymbles returns, in order, one position for each line with
\* exactly four fields, the last line of the blob included, and none for
\* any other line.
C7_EveryFourFieldLineIsAPosition ==
    (parsed # <<>>) => parsed[1] = PositionsOf(LinesOf(buf))

RECURSIVE SumOver(_, _)
SumOver(S, f) ==
    IF S = {} THEN 0
    ELSE LET i == CHOOSE j \in S : TRUE
         IN  f[i] + SumOver(S \ {i}, f)

\* C8: the report has one line per entry of the batch, the earn of a line is
\* (value - bid) * hold of its entry, and the total is the sum of the earns;
\* it is 0 for an empty batch and zero Tickers add nothing to it.
C8_ReportTotalsTheEarns ==
    \A m \in 1..Len(mail) :
       (mail[m].outcome # "session error") =>
          LET c == mail[m].content
              earns == [i \in 1..Len(tickers) |->
                          (tickers[i].Value.num - tickers[i].Bid.num) * tickers[i].Hold]
          IN  /\ Len(c.lines) = Len(tickers)
              /\ \A i \in 1..Len(tickers) :
                    /\ c.lines[i][1] = tickers[i].Symble
                    /\ c.lines[i][5] = earns[i]
              /\ c.total[2] = SumOver(1..Len(tickers), earns)
              /\ c.total[2] = SumOver({i \in 1..Len(tickers) : tickers[i] # ZeroTicker}, earns)
              /\ (Len(tickers) = 0) => c.total[2] = 0

\* bid 10, value 15, hold 5: earn 25, total 25
C8_Witness ==
    /\ Len(mail) = 1
    /\ mail[1].outcome # "session error"
    /\ mail[1].content.lines = << <<(<<"A">>), 1000, 1500, 5, 2500>> >>
    /\ mail[1].content.total[2] = 2500

\* C9: the upload comes after all N results are in, the mail after a
\* successful upload, and while a launched goroutine has not handed over its
\* result there is no upload, no mail and no response.
C9_SideEffectsAreOrdered ==
    /\ \A i \in 1..Len(calls) :
          /\ calls[i].op = "UploadFile" => AllReported
          /\ calls[i].op = "SenderMail" => (i > 1 /\ calls[i - 1] = Call("UploadFile", TRUE))
    /\ (\E w \in 1..Len(workers) : workers[w].pc # "done") =>
          /\ ~Called("UploadFile")
          /\ ~Called("SenderMail")
          /\ uploaded = <<>>
          /\ mail = <<>>
          /\ pc # "returned"
          /\ res = NoResponse

\* download, two goroutines, upload, mail
C9_Witness ==
    /\ pc = "returned"
    /\ Len(calls) = 5
    /\ calls[4] = Call("UploadFile", TRUE)
    /\ calls[5].op = "SenderMail"
    /\ Len(tickers) = 2

DownloadFailed == \E i \in 1..Len(calls) : calls[i] = Call("DownloadFile", FALSE)

\* C10: when DownloadFile fails Handler returns 500 with the error, starts
\* no goroutine, uploads nothing and sends no mail.
C10_DownloadFailureStopsTheRequest ==
    DownloadFailed =>
       /\ pc = "returned"
       /\ res = [StatusCode |-> 500, Body |-> "download error"]
       /\ err = "download error"
       /\ Len(calls) = 1
       /\ workers = <<>>
       /\ uploaded = <<>>
       /\ mail = <<>>

C10_Witness ==
    /\ DownloadFailed
    /\ pc = "returned"
    /\ header = apiKey

====
